---- MODULE Spec2Model ----
(***************************************************************************)
(* A model of package types (deep Less / Equal / Compare, deep Sort and    *)
(* DistinctInPlace over reflect.Values).                                   *)
(*                                                                         *)
(* A reflect.Value is a record with its Kind in k and its type name in t.  *)
(* Pointers are addresses into heap (0 is nil); a slice is its element     *)
(* sequence, distinct slice values having distinct backing arrays.         *)
(* Every recursive function of the package is a RECURSIVE operator that    *)
(* returns the SET of results the call can produce: a Go map is iterated   *)
(* in an unspecified order, so a call can have more than one result, and a *)
(* call that panics has the result pn = TRUE.                              *)
(***************************************************************************)
EXTENDS Integers, Sequences, FiniteSets, TLC

VARIABLES heap, l, r, op, out, arg, stack, visited, pc

vars == <<heap, l, r, op, out, arg, stack, visited, pc>>

(***************************************************************************)
(* Bounds of the input universe.                                           *)
(***************************************************************************)
MaxInt == 1
MaxLen == 2
NPtr == 2
MaxRing == 4

Addrs == 1..NPtr

(***************************************************************************)
(* reflect.Kind classes, as lteqKind and innerSort group them.             *)
(***************************************************************************)
IntKinds == {"int", "int8", "int16", "int32", "int64"}
UintKinds == {"uint", "uint8", "uint16", "uint32", "uint64", "uintptr"}
FloatKinds == {"float32", "float64"}
ComplexKinds == {"complex64", "complex128"}
OpaqueKinds == {"func", "interface", "unsafeptr"}

(***************************************************************************)
(* Values.  The type t is a sequence of names: <<"[]", "int">> is []int,   *)
(* <<"*", "T">> is *T; the length is part of an array's type.              *)
(***************************************************************************)
ArrayLen == <<"0", "1", "2", "3", "4", "5", "6">>
Invalid == [k |-> "invalid", t |-> <<>>]
mkBool(b) == [k |-> "bool", t |-> <<"bool">>, b |-> b]
mkInt(n) == [k |-> "int", t |-> <<"int">>, n |-> n]
mkInt8(n) == [k |-> "int8", t |-> <<"int8">>, n |-> n]
mkUint(n) == [k |-> "uint", t |-> <<"uint">>, n |-> n]
mkFin(n) == [k |-> "float64", t |-> <<"float64">>, c |-> "fin", n |-> n]
NaN == [k |-> "float64", t |-> <<"float64">>, c |-> "nan", n |-> 0]
NegInf == [k |-> "float64", t |-> <<"float64">>, c |-> "ninf", n |-> 0]
PosInf == [k |-> "float64", t |-> <<"float64">>, c |-> "pinf", n |-> 0]
mkComplex(re, im) == [k |-> "complex128", t |-> <<"complex128">>, re |-> re, im |-> im]
mkStr(s) == [k |-> "string", t |-> <<"string">>, s |-> s]
mkChan(n, a) == [k |-> "chan", t |-> <<"chan int">>, n |-> n, a |-> a]
mkFunc(a) == [k |-> "func", t |-> <<"func()">>, a |-> a]
mkUnsafePtr(a) == [k |-> "unsafeptr", t |-> <<"unsafe.Pointer">>, a |-> a]
mkIface(e) == [k |-> "interface", t |-> <<"interface{}">>, e |-> e]
mkSlice(et, e) == [k |-> "slice", t |-> <<"[]">> \o et, e |-> e]
mkArray(et, e) == [k |-> "array", t |-> <<"[n]", ArrayLen[Len(e) + 1]>> \o et, e |-> e]
mkMap(kt, vt, m) == [k |-> "map", t |-> <<"map[">> \o kt \o <<"]">> \o vt, m |-> m]
mkPtr(et, a) == [k |-> "ptr", t |-> <<"*">> \o et, a |-> a]
mkStruct(name, f) == [k |-> "struct", t |-> <<name>>, f |-> f]
Pub(v) == [x |-> TRUE, v |-> v]
Priv(v) == [x |-> FALSE, v |-> v]

(***************************************************************************)
(* Results of lteq: (lt, eq), the visited set p as the call leaves it, and *)
(* pn when the call panicked.                                              *)
(***************************************************************************)
Res(lt, eq, p) == [lt |-> lt, eq |-> eq, pn |-> FALSE, p |-> p]
Panic(p) == [lt |-> FALSE, eq |-> FALSE, pn |-> TRUE, p |-> p]

newPointers == {}

\* hasOrAdd that never finds the pointer
hasOrAddBlind(p, ptr) == [has |-> FALSE, p |-> p \cup {ptr}]

hasOrAdd(p, ptr) == [has |-> ptr \in p, p |-> p \cup {ptr}]

remove(p, ptr) == p \ {ptr}

\* i64lt with <= for <
i64ltLe(lv, rv) == <<lv <= rv, lv = rv>>

i64lt(lv, rv) == IF lv = rv THEN <<FALSE, TRUE>> ELSE <<lv < rv, FALSE>>

u64lt(lv, rv) == IF lv = rv THEN <<FALSE, TRUE>> ELSE <<lv < rv, FALSE>>

IsNaN(f) == f.c = "nan"

IsNegInf(f) == f.c = "ninf"

\* Go's < and == on two floats: false whenever either is NaN.
FloatLt(a, b) ==
  /\ ~IsNaN(a) /\ ~IsNaN(b)
  /\ \/ a.c = "ninf" /\ b.c # "ninf"
     \/ a.c = "fin" /\ b.c = "fin" /\ a.n < b.n
     \/ a.c = "fin" /\ b.c = "pinf"

FloatEq(a, b) == ~IsNaN(a) /\ ~IsNaN(b) /\ a.c = b.c /\ a.n = b.n

f64lt(lv, rv) ==
  IF IsNaN(lv) THEN <<~IsNaN(rv), IsNaN(rv)>>
  ELSE IF IsNaN(rv) THEN <<FALSE, FALSE>>
  ELSE IF IsNegInf(lv) THEN <<~IsNegInf(rv), IsNegInf(rv)>>
  ELSE IF IsNegInf(rv) THEN <<FALSE, FALSE>>
  ELSE <<FloatLt(lv, rv), FloatEq(lv, rv)>>

c128lt(lv, rv) ==
  LET re == f64lt(lv.re, rv.re)
  IN  IF re[2] THEN f64lt(lv.im, rv.im) ELSE re

\* Go's < on strings: bytewise lexicographic.
StrLt(a, b) ==
  \E i \in 1..(Len(b)) :
    /\ \A j \in 1..(i - 1) : j <= Len(a) /\ a[j] = b[j]
    /\ (i > Len(a) \/ a[i] < b[i])

\* Go's == on two values of one comparable type: "eq", "ne", or "panic" when an
\* interface holds a value of an uncomparable type.
RECURSIVE GoEq(_, _)
RECURSIVE GoEqSeq(_, _, _)
GoEq(a, b) ==
  CASE a.k = "bool" -> IF a.b = b.b THEN "eq" ELSE "ne"
    [] a.k \in IntKinds \cup UintKinds -> IF a.n = b.n THEN "eq" ELSE "ne"
    [] a.k \in FloatKinds -> IF FloatEq(a, b) THEN "eq" ELSE "ne"
    [] a.k \in ComplexKinds ->
         IF FloatEq(a.re, b.re) /\ FloatEq(a.im, b.im) THEN "eq" ELSE "ne"
    [] a.k = "string" -> IF a.s = b.s THEN "eq" ELSE "ne"
    [] a.k \in {"chan", "ptr", "unsafeptr"} -> IF a.a = b.a THEN "eq" ELSE "ne"
    [] a.k = "interface" ->
         IF a.e = <<>> \/ b.e = <<>> THEN (IF a.e = b.e THEN "eq" ELSE "ne")
         ELSE IF a.e[1].t # b.e[1].t THEN "ne"
         ELSE GoEq(a.e[1], b.e[1])
    [] a.k = "array" -> GoEqSeq(a.e, b.e, 1)
    [] a.k = "struct" ->
         GoEqSeq([i \in 1..Len(a.f) |-> a.f[i].v], [i \in 1..Len(b.f) |-> b.f[i].v], 1)
    [] OTHER -> "panic"

GoEqSeq(a, b, i) ==
  IF i > Len(a) THEN "eq"
  ELSE LET c == GoEq(a[i], b[i])
       IN  IF c = "eq" THEN GoEqSeq(a, b, i + 1) ELSE c

\* reflect.Value.MapIndex: the value under the key that is == to key, or the
\* zero Value.
MapIndex(m, key) ==
  LET hit == {i \in 1..Len(m.m) : GoEq(m.m[i][1], key) = "eq"}
  IN  IF hit = {} THEN Invalid ELSE m.m[CHOOSE i \in hit : TRUE][2]

\* The orders in which the entries of a map can be enumerated.
Perms(n) == {f \in [1..n -> 1..n] : \A i, j \in 1..n : f[i] = f[j] => i = j}

Swap(s, i, j) == [s EXCEPT ![i] = s[j], ![j] = s[i]]

(***************************************************************************)
(* lteq and lteqKind.  p is the visited-pointer set, h the heap.           *)
(***************************************************************************)
RECURSIVE lteq(_, _, _, _)
RECURSIVE lteqKind(_, _, _, _, _)
RECURSIVE lteqFields(_, _, _, _, _)
RECURSIVE lteqElems(_, _, _, _, _, _)
RECURSIVE lteqValues(_, _, _, _, _, _, _)
RECURSIVE insertionSort(_, _, _, _, _, _)

\* The less function handed to sort.Slice: "lteq" is the closure over lteq
\* (the visited set p is the caller's), "native" is Go's < on the element type
\* (for bool, !a && b).
sliceLess(mode, p, h, a, b) ==
  IF mode = "lteq" THEN lteq(p, h, a, b)
  ELSE {Res(CASE a.k = "bool" -> ~a.b /\ b.b
              [] a.k \in FloatKinds -> FloatLt(a, b)
              [] a.k = "string" -> StrLt(a.s, b.s)
              [] OTHER -> a.n < b.n,
            FALSE, p)}

\* sort.Slice on a slice of at most 12 elements is an insertion sort:
\*   for i := 1; i < n; i++ { for j := i; j > 0 && less(j, j-1); j-- { swap(j, j-1) } }
\* (1-based here).  The result is the set of [s, p, pn] the calls of less allow.
insertionSort(mode, p, h, s, i, j) ==
  IF i > Len(s) THEN {[s |-> s, p |-> p, pn |-> FALSE]}
  ELSE IF j <= 1 THEN insertionSort(mode, p, h, s, i + 1, i + 1)
  ELSE UNION {
         IF o.pn THEN {[s |-> s, p |-> o.p, pn |-> TRUE]}
         ELSE IF o.lt THEN insertionSort(mode, o.p, h, Swap(s, j, j - 1), i, j - 1)
         ELSE insertionSort(mode, o.p, h, s, i + 1, i + 1)
         : o \in sliceLess(mode, p, h, s[j], s[j - 1]) }

sortSlice(mode, p, h, s) == insertionSort(mode, p, h, s, 2, 2)

lteq(p, h, lv, rv) ==
  IF lv.k = "invalid" \/ rv.k = "invalid" THEN {Panic(p)}
  ELSE IF lv.t # rv.t THEN {Panic(p)}
  ELSE IF lv.k # "struct" THEN lteqKind(p, h, lv.k, lv, rv)
  ELSE lteqFields(p, h, lv.f, rv.f, 1)

\* The loop over the struct's fields, from field i on.
lteqFields(p, h, lf, rf, i) ==
  IF i > Len(lf) THEN {Res(FALSE, TRUE, p)}
  ELSE IF ~lf[i].x THEN lteqFields(p, h, lf, rf, i + 1)
  ELSE UNION {
         IF o.pn THEN {o}
         ELSE IF ~o.eq THEN {Res(o.lt, FALSE, o.p)}
         ELSE lteqFields(o.p, h, lf, rf, i + 1)
         : o \in lteqKind(p, h, lf[i].v.k, lf[i].v, rf[i].v) }

\* The loop "lt, eq = lteq(l[i], r[i]); if !eq return lt, false" from index i
\* on, (lt, eq) being the pair the loop leaves when it runs to its end.
lteqElems(p, h, le, re, i, last) ==
  IF i > Len(le) THEN {Res(last[1], last[2], p)}
  ELSE UNION {
         IF o.pn THEN {o}
         ELSE IF ~o.eq THEN {Res(o.lt, FALSE, o.p)}
         ELSE lteqElems(o.p, h, le, re, i + 1, <<o.lt, o.eq>>)
         : o \in lteq(p, h, le[i], re[i]) }

\* The loop over lv.MapRange(): the entries of lm in the order ord, each value
\* against rv.MapIndex(key).
lteqValues(p, h, lm, rm, ord, i, last) ==
  IF i > Len(lm.m) THEN {Res(last[1], last[2], p)}
  ELSE UNION {
         IF o.pn THEN {o}
         ELSE IF ~o.eq THEN {Res(o.lt, FALSE, o.p)}
         ELSE lteqValues(o.p, h, lm, rm, ord, i + 1, <<o.lt, o.eq>>)
         : o \in lteq(p, h, lm.m[ord[i]][2], MapIndex(rm, lm.m[ord[i]][1])) }

lteqMap(p, h, lv, rv) ==
  LET ll == Len(lv.m)
      lr == Len(rv.m)
  IN  IF ll # lr THEN {Res(ll < lr, FALSE, p)}
      ELSE UNION {
        UNION {
          UNION {
            IF lk.pn \/ rk.pn THEN {Panic(rk.p)}
            ELSE UNION {
              IF ko.pn \/ ~ko.eq THEN {ko}
              ELSE UNION { lteqValues(ko.p, h, lv, rv, ord, 1, <<ko.lt, ko.eq>>)
                           : ord \in Perms(ll) }
              : ko \in lteqElems(rk.p, h, lk.s, rk.s, 1, <<FALSE, TRUE>>) }
            : rk \in IF lk.pn THEN {lk}
                     ELSE sortSlice("lteq", lk.p, h, [i \in 1..lr |-> rv.m[ro[i]][1]]) }
          : lk \in sortSlice("lteq", p, h, [i \in 1..ll |-> lv.m[lo[i]][1]]) }
        : lo \in Perms(ll), ro \in Perms(lr) }

\* lteqPtr with the left cycle-closing pointer no longer less than a right one
\* that still recurses.
lteqPtrUnordered(p, h, lv, rv) ==
  IF lv.a = 0 THEN {Res(rv.a # 0, rv.a = 0, p)}
  ELSE IF rv.a = 0 THEN {Res(FALSE, FALSE, p)}
  ELSE LET lh == hasOrAdd(p, lv.a)
           rh == hasOrAdd(lh.p, rv.a)
           undo(q) == LET q1 == IF ~rh.has THEN remove(q, rv.a) ELSE q
                      IN  IF ~lh.has THEN remove(q1, lv.a) ELSE q1
       IN  IF lh.has \/ rh.has THEN {Res(FALSE, lh.has /\ rh.has, undo(rh.p))}
           ELSE { [o EXCEPT !.p = undo(o.p)]
                  : o \in lteqKind(rh.p, h, h[lv.a].k, h[lv.a], h[rv.a]) }

lteqPtr(p, h, lv, rv) ==
  IF lv.a = 0 THEN {Res(rv.a # 0, rv.a = 0, p)}
  ELSE IF rv.a = 0 THEN {Res(FALSE, FALSE, p)}
  ELSE LET lh == hasOrAdd(p, lv.a)
           rh == hasOrAdd(lh.p, rv.a)
           \* the deferred p.remove calls
           undo(q) == LET q1 == IF ~rh.has THEN remove(q, rv.a) ELSE q
                      IN  IF ~lh.has THEN remove(q1, lv.a) ELSE q1
       IN  IF lh.has THEN {Res(~rh.has, rh.has, undo(rh.p))}
           ELSE IF rh.has THEN {Res(FALSE, FALSE, undo(rh.p))}
           ELSE { [o EXCEPT !.p = undo(o.p)]
                  : o \in lteqKind(rh.p, h, h[lv.a].k, h[lv.a], h[rv.a]) }

lteqKind(p, h, k, lv, rv) ==
  CASE k = "bool" -> {Res(~lv.b /\ rv.b, lv.b = rv.b, p)}
    [] k \in IntKinds -> LET c == i64lt(lv.n, rv.n) IN {Res(c[1], c[2], p)}
    [] k \in UintKinds -> LET c == u64lt(lv.n, rv.n) IN {Res(c[1], c[2], p)}
    [] k \in FloatKinds -> LET c == f64lt(lv, rv) IN {Res(c[1], c[2], p)}
    [] k \in ComplexKinds -> LET c == c128lt(lv, rv) IN {Res(c[1], c[2], p)}
    [] k = "chan" -> {Res(lv.n < rv.n, lv.n = rv.n, p)}
    [] k \in OpaqueKinds ->
         \* lv.Interface() == rv.Interface(): comparing two funcs panics
         LET c == IF k = "func" THEN "panic" ELSE GoEq(lv, rv)
         IN  IF c = "panic" THEN {Panic(p)} ELSE {Res(FALSE, c = "eq", p)}
    [] k = "string" -> {Res(StrLt(lv.s, rv.s), lv.s = rv.s, p)}
    [] k = "struct" -> lteq(p, h, lv, rv)
    [] k \in {"array", "slice"} ->
         IF Len(lv.e) # Len(rv.e) THEN {Res(Len(lv.e) < Len(rv.e), FALSE, p)}
         ELSE lteqElems(p, h, lv.e, rv.e, 1, <<FALSE, TRUE>>)
    [] k = "map" -> lteqMap(p, h, lv, rv)
    [] k = "ptr" -> lteqPtr(p, h, lv, rv)
    [] OTHER -> {Res(FALSE, FALSE, p)}

(***************************************************************************)
(* Less, Equal, Compare: the results a call can give; "panic" when it      *)
(* panics.                                                                 *)
(***************************************************************************)
Less(h, lv, rv) ==
  {IF o.pn THEN "panic" ELSE IF o.lt THEN "true" ELSE "false"
   : o \in lteq(newPointers, h, lv, rv)}

Equal(h, lv, rv) ==
  {IF o.pn THEN "panic" ELSE IF o.eq THEN "true" ELSE "false"
   : o \in lteq(newPointers, h, lv, rv)}

\* Compare's "if lt { return -1 } else if eq { return 0 }; return 1"
compareOf(o) == IF o.lt THEN "-1" ELSE IF o.eq THEN "0" ELSE "1"

Compare(h, lv, rv) ==
  {IF o.pn THEN "panic" ELSE compareOf(o) : o \in lteq(newPointers, h, lv, rv)}

(***************************************************************************)
(* innerSort.  addr is v.CanAddr(); a result is [ok, v, h, p, pn]: the     *)
(* sortable flag returned, v and the heap as the call leaves them, the     *)
(* visited set, and pn when a comparison panicked.                         *)
(***************************************************************************)
SRes(ok, v, h, p, pn) == [ok |-> ok, v |-> v, h |-> h, p |-> p, pn |-> pn]

\* The element kinds innerSort sorts with Go's own <.
NativeKinds == {"bool", "string"} \cup IntKinds \cup UintKinds \cup FloatKinds

RECURSIVE innerSort(_, _, _, _)
RECURSIVE innerSortValues(_, _, _, _, _, _)
RECURSIVE innerSortFields(_, _, _, _, _)

\* case reflect.Slice (and an addressable, non-empty reflect.Array)
innerSortSlice(p, h, v) ==
  IF v.e = <<>> THEN {SRes(TRUE, v, h, p, FALSE)}
  ELSE { SRes(TRUE, [v EXCEPT !.e = st.s], h, st.p, st.pn)
         : st \in sortSlice(IF v.e[1].k \in NativeKinds THEN "native" ELSE "lteq",
                            p, h, v.e) }

\* The loop over v.MapRange() in the order ord, from entry i on; it breaks at
\* the first value that is not sortable.
innerSortValues(p, h, v, ord, i, sortable) ==
  IF i > Len(v.m) THEN {SRes(sortable, v, h, p, FALSE)}
  ELSE UNION {
         LET nv == [v EXCEPT !.m[ord[i]][2] = o.v]
         IN  IF o.pn THEN {SRes(FALSE, nv, o.h, o.p, TRUE)}
             ELSE IF ~o.ok THEN {SRes(FALSE, nv, o.h, o.p, FALSE)}
             ELSE innerSortValues(o.p, o.h, nv, ord, i + 1, TRUE)
         : o \in innerSort(p, h, v.m[ord[i]][2], FALSE) }

\* The loop over the struct's fields, from field i on.
innerSortFields(p, h, v, addr, i) ==
  IF i > Len(v.f) THEN {SRes(TRUE, v, h, p, FALSE)}
  ELSE IF ~v.f[i].x THEN innerSortFields(p, h, v, addr, i + 1)
  ELSE UNION {
         LET nv == [v EXCEPT !.f[i].v = o.v]
         IN  IF o.pn THEN {SRes(FALSE, nv, o.h, o.p, TRUE)}
             ELSE innerSortFields(o.p, o.h, nv, addr, i + 1)
         : o \in innerSort(p, h, v.f[i].v, addr) }

innerSort(p, h, v, addr) ==
  CASE v.k = "ptr" ->
         IF v.a = 0 THEN {SRes(TRUE, v, h, p, FALSE)}
         ELSE LET ha == hasOrAdd(p, v.a)
              IN  IF ha.has THEN {SRes(TRUE, v, h, ha.p, FALSE)}
                  ELSE { SRes(o.ok, v, [o.h EXCEPT ![v.a] = o.v], remove(o.p, v.a), o.pn)
                         : o \in innerSort(ha.p, h, h[v.a], TRUE) }
    [] v.k = "array" ->
         IF Len(v.e) = 0 THEN {SRes(TRUE, v, h, p, FALSE)}
         ELSE IF ~addr THEN {SRes(FALSE, v, h, p, FALSE)}
         ELSE innerSortSlice(p, h, v)
    [] v.k = "slice" -> innerSortSlice(p, h, v)
    [] v.k = "map" ->
         UNION { innerSortValues(p, h, v, ord, 1, FALSE) : ord \in Perms(Len(v.m)) }
    [] v.k = "struct" -> innerSortFields(p, h, v, addr, 1)
    [] OTHER -> {SRes(FALSE, v, h, p, FALSE)}

Sort(h, s) == innerSort(newPointers, h, s, FALSE)

(***************************************************************************)
(* DistinctInPlace.  A result is [h, pn]: the heap as the call leaves it   *)
(* (the slice is the cell sliceptr points to).                             *)
(***************************************************************************)
RECURSIVE compact(_, _, _, _, _)

\* The compaction loop, at index next with the last kept index last (1-based);
\* its results are the truncated slices v.Slice(0, last+1).
compact(p, h, s, last, next) ==
  IF next > Len(s) THEN {[s |-> SubSeq(s, 1, last), pn |-> FALSE]}
  ELSE UNION {
         IF o.pn THEN {[s |-> s, pn |-> TRUE]}
         ELSE IF o.eq THEN compact(o.p, h, s, last, next + 1)
         ELSE compact(o.p, h,
                      IF last + 1 # next THEN [s EXCEPT ![last + 1] = s[next]] ELSE s,
                      last + 1, next + 1)
         : o \in lteq(p, h, s[last], s[next]) }

DistinctInPlace(h, sliceptr) ==
  IF sliceptr.k # "ptr" \/ sliceptr.a = 0 \/ h[sliceptr.a].k # "slice"
  THEN {[h |-> h, pn |-> TRUE]}
  ELSE UNION {
         IF o.pn THEN {[h |-> [o.h EXCEPT ![sliceptr.a] = o.v], pn |-> TRUE]}
         ELSE IF Len(o.v.e) = 0 THEN {[h |-> o.h, pn |-> FALSE]}
         ELSE { [h |-> [o.h EXCEPT ![sliceptr.a] = [o.v EXCEPT !.e = c.s]], pn |-> c.pn]
                : c \in compact(o.p, o.h, o.v.e, 1, 2) }
         : o \in innerSort(newPointers, h, h[sliceptr.a], TRUE) }

(***************************************************************************)
(* The program: a caller holding two operands l and r and the heap they    *)
(* point into calls the package's functions.  A panic ends the program.    *)
(***************************************************************************)
NoOut == [pn |-> FALSE, val |-> "none"]

Idle == stack = <<>> /\ visited = {} /\ pc = "idle"

Start(h, lv, rv) ==
  /\ heap = h /\ l = lv /\ r = rv
  /\ op = "init" /\ out = NoOut /\ arg = [l |-> lv, h |-> h]
  /\ Idle

CallLess ==
  /\ pc = "idle" /\ ~out.pn
  /\ \E res \in Less(heap, l, r) : out' = [pn |-> res = "panic", val |-> res]
  /\ op' = "Less" /\ arg' = [l |-> l, h |-> heap]
  /\ UNCHANGED <<heap, l, r, stack, visited, pc>>

CallEqual ==
  /\ pc = "idle" /\ ~out.pn
  /\ \E res \in Equal(heap, l, r) : out' = [pn |-> res = "panic", val |-> res]
  /\ op' = "Equal" /\ arg' = [l |-> l, h |-> heap]
  /\ UNCHANGED <<heap, l, r, stack, visited, pc>>

CallCompare ==
  /\ pc = "idle" /\ ~out.pn
  /\ \E res \in Compare(heap, l, r) : out' = [pn |-> res = "panic", val |-> res]
  /\ op' = "Compare" /\ arg' = [l |-> l, h |-> heap]
  /\ UNCHANGED <<heap, l, r, stack, visited, pc>>

CallSort ==
  /\ pc = "idle" /\ ~out.pn
  /\ \E o \in Sort(heap, l) :
       /\ l' = o.v /\ heap' = o.h
       /\ out' = [pn |-> o.pn, val |-> IF o.pn THEN "panic" ELSE "done"]
  /\ op' = "Sort" /\ arg' = [l |-> l, h |-> heap]
  /\ UNCHANGED <<r, stack, visited, pc>>

CallDistinctInPlace ==
  /\ pc = "idle" /\ ~out.pn
  /\ \E o \in DistinctInPlace(heap, l) :
       /\ heap' = o.h
       /\ out' = [pn |-> o.pn, val |-> IF o.pn THEN "panic" ELSE "done"]
  /\ op' = "DistinctInPlace" /\ arg' = [l |-> l, h |-> heap]
  /\ UNCHANGED <<l, r, stack, visited, pc>>

Next ==
  \/ CallLess
  \/ CallEqual
  \/ CallCompare
  \/ CallSort
  \/ CallDistinctInPlace

(***************************************************************************)
(* The operands.  Each family is a set of values of one Go type (Prims     *)
(* mixes the primitive types, so that its pairs also differ in type).      *)
(***************************************************************************)
SeqsUpTo(S, n) == UNION {[1..k -> S] : k \in 0..n}

TInt == <<"int">>
TFloat == <<"float64">>
TString == <<"string">>

Bools == {mkBool(b) : b \in BOOLEAN}
Ints == {mkInt(n) : n \in 0..MaxInt}
Floats == {NaN, NegInf, mkFin(0), mkFin(1), PosInf}
SomeFloats == {NaN, NegInf, mkFin(1)}
Complexes == {mkComplex(a, b) : a, b \in SomeFloats}
Strs == {mkStr(s) : s \in {<<>>, <<1>>, <<1, 2>>, <<2>>}}
Chans == {mkChan(0, 1), mkChan(1, 2), mkChan(0, 3)}
Funcs == {mkFunc(0), mkFunc(1)}
UnsafePtrs == {mkUnsafePtr(0), mkUnsafePtr(1)}
Prims ==
  Bools \cup Ints \cup {mkInt8(0), mkUint(0), mkUint(1)} \cup Floats \cup Complexes
    \cup Strs \cup Chans \cup Funcs \cup UnsafePtrs

IntSlices == {mkSlice(TInt, e) : e \in SeqsUpTo(Ints, MaxLen)}
FloatSlices == {mkSlice(TFloat, e) : e \in SeqsUpTo(SomeFloats, MaxLen)}
IntArrays == {mkArray(TInt, e) : e \in SeqsUpTo({mkInt(0), mkInt(1)}, 2)}
SmallIntSlices ==
  {mkSlice(TInt, e) : e \in {<<>>, <<mkInt(0)>>, <<mkInt(1), mkInt(0)>>}}
NestedSlices == {mkSlice(<<"[]", "int">>, e) : e \in SeqsUpTo(SmallIntSlices, 2)}

\* struct { F int; G bool; h int }
S(f, g, h) == mkStruct("S", <<Pub(mkInt(f)), Pub(mkBool(g)), Priv(mkInt(h))>>)
Structs == {S(f, g, h) : f \in 0..1, g \in BOOLEAN, h \in 0..1}

\* struct { F int; h int }
K(f, h) == mkStruct("K", <<Pub(mkInt(f)), Priv(mkInt(h))>>)

Entries1(Ks, Vs) == {<< <<k, v>> >> : k \in Ks, v \in Vs}
IntMaps ==
  {mkMap(TInt, TInt, m) :
     m \in {<<>>} \cup Entries1({mkInt(k) : k \in 1..3}, {mkInt(1), mkInt(2)})
         \cup UNION {{<< <<mkInt(k1), mkInt(v1)>>, <<mkInt(k2), mkInt(v2)>> >> :
                        k2 \in (k1 + 1)..3, v1 \in 1..2, v2 \in 1..2} : k1 \in 1..2}}
FloatMaps ==
  {mkMap(TFloat, TInt, m) :
     m \in Entries1({NaN, mkFin(1)}, {mkInt(0), mkInt(1)})
         \cup {<< <<NaN, mkInt(0)>>, <<mkFin(1), mkInt(0)>> >>,
               << <<NaN, mkInt(0)>>, <<NaN, mkInt(1)>> >>}}
StructKeyMaps ==
  {mkMap(<<"K">>, TInt, m) :
     m \in {<<>>} \cup Entries1({K(f, h) : f \in 0..1, h \in 0..1}, {mkInt(0)})}
Ifaces ==
  {mkIface(<<>>), mkIface(<<mkInt(0)>>), mkIface(<<mkInt(1)>>), mkIface(<<mkStr(<<1>>)>>),
   mkIface(<<K(0, 0)>>), mkIface(<<K(0, 1)>>), mkIface(<<mkSlice(TInt, <<>>)>>)}
IfaceSlices == {mkSlice(<<"interface{}">>, e) : e \in SeqsUpTo(Ifaces, 1)}

\* struct { A []int; b []int }
U(a, b) == mkStruct("U", <<Pub(a), Priv(b)>>)
Us == {U(a, b) : a, b \in SmallIntSlices}

PlainFamilies ==
  {Prims, IntSlices, FloatSlices, IntArrays, NestedSlices, Structs, Us, IntMaps, FloatMaps,
   StructKeyMaps, IfaceSlices}

\* The heap of a program whose operands hold no pointer.
NoHeap == [a \in Addrs |-> mkInt(0)]

\* struct Node { Val int; Next *Node }
TNode == <<"Node">>
Node(v, n) == mkStruct("Node", <<Pub(mkInt(v)), Pub(mkPtr(TNode, n))>>)
NodeHeaps == [Addrs -> {Node(v, n) : v \in 0..1, n \in 0..NPtr}]
NodePtrs == {mkPtr(TNode, a) : a \in 0..NPtr}

\* *int, and map[*int]int
IntHeaps == [Addrs -> {mkInt(0), mkInt(1)}]
IntPtrs == {mkPtr(TInt, a) : a \in 0..NPtr}
PtrKeyMaps ==
  {mkMap(<<"*", "int">>, TInt, m) : m \in Entries1({mkPtr(TInt, a) : a \in Addrs}, {mkInt(0)})}

Init ==
  \/ \E h \in IntHeaps : \E lv, rv \in IntPtrs : Start(h, lv, rv)
  \/ \E h \in NodeHeaps : \E lv, rv \in NodePtrs : Start(h, lv, rv)
  \/ \E F \in PlainFamilies : \E lv, rv \in F : Start(NoHeap, lv, rv)
  \/ \E h \in IntHeaps : \E lv, rv \in PtrKeyMaps : Start(h, lv, rv)

Spec == Init /\ [][Next]_vars

(***************************************************************************)
(* The operands of Sort and DistinctInPlace: a value v, handed over as v   *)
(* or as &v (the cell 1 of the heap then holds v).                         *)
(***************************************************************************)
\* struct { A int; b int }
AB(a, b) == mkStruct("AB", <<Pub(mkInt(a)), Priv(mkInt(b))>>)

SliceMap(m) == mkMap(TString, <<"[]", "int">>, m)

SliceMaps ==
  {SliceMap(m) :
     m \in {<<>>} \cup Entries1({mkStr(<<1>>)}, SmallIntSlices)
         \cup {<< <<mkStr(<<1>>), v1>>, <<mkStr(<<2>>), v2>> >> :
                 v1, v2 \in SmallIntSlices}}

\* struct { A []int; b []int; B map[string][]int; C map[string]string }
T(a, b, bm) ==
  mkStruct("T", <<Pub(a), Priv(b), Pub(bm),
                  Pub(mkMap(TString, TString, << <<mkStr(<<1>>), mkStr(<<1>>)>> >>))>>)

SortValues ==
  {mkSlice(TInt, e) : e \in SeqsUpTo({mkInt(n) : n \in 0..(MaxInt + 1)}, MaxLen + 1)}
    \cup {mkSlice(TFloat, e) : e \in SeqsUpTo(SomeFloats, MaxLen + 1)}
    \cup {mkSlice(<<"bool">>, e) : e \in SeqsUpTo(Bools, MaxLen + 1)}
    \cup {mkSlice(TString, e) : e \in SeqsUpTo({mkStr(<<>>), mkStr(<<1>>), mkStr(<<2>>)}, MaxLen)}
    \cup {mkSlice(<<"uint">>, e) : e \in SeqsUpTo({mkUint(0), mkUint(1)}, MaxLen)}
    \cup {mkSlice(<<"complex128">>, e) :
            e \in SeqsUpTo({mkComplex(NaN, mkFin(1)), mkComplex(mkFin(1), NaN),
                            mkComplex(mkFin(1), mkFin(1))}, MaxLen)}
    \cup {mkSlice(<<"AB">>, e) : e \in SeqsUpTo({AB(a, b) : a, b \in 0..1}, MaxLen)}
    \cup NestedSlices \cup IntArrays \cup SliceMaps
    \cup {T(a, b, bm) : a \in SmallIntSlices, b \in SmallIntSlices,
                        bm \in {SliceMap(<<>>),
                                SliceMap(<< <<mkStr(<<1>>), mkSlice(TInt, <<mkInt(1), mkInt(0)>>)>> >>)}}
    \cup {mkMap(TString, <<"map[", "string", "]", "[]", "int">>,
                << <<mkStr(<<1>>), SliceMap(<<>>)>>,
                   <<mkStr(<<2>>), SliceMap(<< <<mkStr(<<1>>), mkSlice(TInt, <<mkInt(1), mkInt(0)>>)>> >>)>> >>),
          mkMap(TString, <<"[n]", "2", "int">>,
                << <<mkStr(<<1>>), mkArray(TInt, <<mkInt(1), mkInt(0)>>)>> >>),
          mkInt(3), mkPtr(TInt, 0)}
    \cup {mkSlice(<<"interface{}">>, e) :
            e \in SeqsUpTo({mkIface(<<mkInt(0)>>), mkIface(<<mkInt(1)>>)}, MaxLen + 1)}

\* struct Tree { V int; Kids []*Tree }
TTree == <<"Tree">>
Tree(v, kids) ==
  mkStruct("Tree", <<Pub(mkInt(v)),
                     Pub(mkSlice(<<"*", "Tree">>, [i \in 1..Len(kids) |-> mkPtr(TTree, kids[i])]))>>)
TreeHeaps == {[a \in Addrs |-> Tree(a % 2, kids[a])] : kids \in [Addrs -> SeqsUpTo(Addrs, 2)]}

InitSort ==
  \/ \E v \in SortValues : Start(NoHeap, v, v)
  \/ \E v \in SortValues :
       Start([a \in Addrs |-> IF a = 1 THEN v ELSE mkInt(0)], mkPtr(v.t, 1), mkPtr(v.t, 1))
  \/ \E h \in NodeHeaps : \E e \in SeqsUpTo(NodePtrs, 2) :
       Start(h, mkSlice(<<"*", "Node">>, e), mkSlice(<<"*", "Node">>, e))
  \/ \E h \in TreeHeaps : \E a \in Addrs : Start(h, mkPtr(TTree, a), mkPtr(TTree, a))

SpecSort == InitSort /\ [][Next]_vars

(***************************************************************************)
(* Two rings built as newRecursive(n) and newRecursive(m) (kind            *)
(* "recursive"), or newRecursive2(n) and newRecursive2(m): the first ring  *)
(* in the cells 1..n, the second in n+1..n+m; the operands are copies of   *)
(* the first node of each ring, as the constructors return them.           *)
(***************************************************************************)
RingNode(kind, next) ==
  IF kind = "recursive2"
  THEN mkStruct("recursive2", <<Pub(mkPtr(<<"recursive2">>, next))>>)
  ELSE mkStruct("recursive",
                <<Pub(mkSlice(<<"*", "recursive">>, <<mkPtr(<<"recursive">>, next)>>))>>)

RingHeap(kind, n, m) ==
  [a \in 1..(n + m) |->
     RingNode(kind, IF a <= n THEN (IF a = n THEN 1 ELSE a + 1)
                    ELSE (IF a = n + m THEN n + 1 ELSE a + 1))]

InitRing ==
  \E kind \in {"recursive", "recursive2"} : \E n, m \in 1..MaxRing :
    Start(RingHeap(kind, n, m), RingHeap(kind, n, m)[1], RingHeap(kind, n, m)[n + 1])

SpecRing == InitRing /\ [][Next]_vars

(***************************************************************************)
(* The same calls step by step.  stack is the call stack, one frame for    *)
(* each active call of an API function (the bottom frame), lteq, lteqKind, *)
(* sort.Slice or innerSort; visited is the pointers set p the call made    *)
(* with newPointers(); pc is "call" when the top frame has just been       *)
(* called and "ret" when the call it made has returned (its result is in   *)
(* the frame's res).  A frame's rm is the pointers its deferred p.remove   *)
(* calls take out of p.  The kinds that need no frame of their own (the    *)
(* primitives, maps, slices sorted with Go's <) are handled in one step.   *)
(***************************************************************************)
NoRes == [lt |-> FALSE, eq |-> FALSE, ok |-> FALSE, v |-> Invalid, s |-> <<>>]
\* LtEq that never says less
LtEqNotLess(lt, eq) == [NoRes EXCEPT !.lt = FALSE, !.eq = eq]

LtEq(lt, eq) == [NoRes EXCEPT !.lt = lt, !.eq = eq]
Sortable(ok, v) == [NoRes EXCEPT !.ok = ok, !.v = v]
SortedAs(s) == [NoRes EXCEPT !.s = s]

Frame(f, k, lv, rv, addr) ==
  [f |-> f, k |-> k, lv |-> lv, rv |-> rv, addr |-> addr,
   i |-> 0, j |-> 0, s |-> <<>>, rm |-> {}, res |-> NoRes]

lteqFrame(lv, rv) == Frame("lteq", lv.k, lv, rv, FALSE)
lteqKindFrame(k, lv, rv) == Frame("lteqKind", k, lv, rv, FALSE)
innerSortFrame(v, addr) == Frame("innerSort", v.k, v, Invalid, addr)
sortSliceFrame(s) == [Frame("sort.Slice", "slice", Invalid, Invalid, FALSE)
                        EXCEPT !.s = s, !.i = 2, !.j = 2]

Top == stack[Len(stack)]

\* The deepest stack the model lets a call grow: a call that would exceed it
\* never returns.
StackCap == 3 * NPtr + 8

\* The top frame of stk calls fr, p being vis and the heap h.
CallWith(stk, fr, vis, h) ==
  /\ Len(stk) < StackCap
  /\ stack' = Append(stk, fr) /\ pc' = "call" /\ visited' = vis
  /\ heap' = h
  /\ UNCHANGED <<l, out>>

Call(stk, fr, vis) == CallWith(stk, fr, vis, heap)

\* The top frame of stk returns res to its caller, p being vis.
Return(stk, res, vis) ==
  /\ stack' = [SubSeq(stk, 1, Len(stk) - 1) EXCEPT ![Len(stk) - 1].res = res]
  /\ pc' = "ret" /\ visited' = vis
  /\ UNCHANGED <<heap, l, out>>

\* The top frame goes on at its next step.
Continue(stk) ==
  /\ stack' = stk /\ pc' = "call"
  /\ UNCHANGED <<heap, l, out, visited>>

\* A panic unwinds the stack, the deferred calls running.
Panics ==
  /\ pc' = "done" /\ stack' = <<>>
  /\ visited' = visited \ UNION {stack[n].rm : n \in 1..Len(stack)}
  /\ out' = [pn |-> TRUE, val |-> "panic"]
  /\ UNCHANGED <<heap, l>>

\* The API function returns.
Returns(val, h, lv) ==
  /\ pc' = "done" /\ stack' = <<>>
  /\ out' = [pn |-> FALSE, val |-> val]
  /\ heap' = h /\ l' = lv
  /\ UNCHANGED visited

\* The first exported field at or after field i (Len(f) + 1 if there is none).
RECURSIVE NextField(_, _)
NextField(f, i) == IF i > Len(f) \/ f[i].x THEN i ELSE NextField(f, i + 1)

Entered(f) == pc = "call" /\ stack # <<>> /\ Top.f = f
Resumed(f) == pc = "ret" /\ stack # <<>> /\ Top.f = f

RunCompareOp(name) ==
  /\ pc = "idle"
  /\ stack' = <<Frame(name, "api", l, r, FALSE), lteqFrame(l, r)>>
  /\ pc' = "call" /\ visited' = newPointers
  /\ op' = name /\ arg' = [l |-> l, h |-> heap]
  /\ UNCHANGED <<heap, l, r, out>>

RunLess == RunCompareOp("Less")

RunEqual == RunCompareOp("Equal")

RunCompare == RunCompareOp("Compare")

RunSort ==
  /\ pc = "idle"
  /\ stack' = <<Frame("Sort", "api", l, Invalid, FALSE), innerSortFrame(l, FALSE)>>
  /\ pc' = "call" /\ visited' = newPointers
  /\ op' = "Sort" /\ arg' = [l |-> l, h |-> heap]
  /\ UNCHANGED <<heap, l, r, out>>

RunDistinctInPlace ==
  /\ pc = "idle"
  /\ op' = "DistinctInPlace" /\ arg' = [l |-> l, h |-> heap]
  /\ IF l.k # "ptr" \/ l.a = 0 \/ heap[l.a].k # "slice"
     THEN /\ pc' = "done" /\ stack' = <<>> /\ visited' = newPointers
          /\ out' = [pn |-> TRUE, val |-> "panic"]
     ELSE /\ stack' = <<Frame("DistinctInPlace", "api", l, Invalid, FALSE),
                        innerSortFrame(heap[l.a], TRUE)>>
          /\ pc' = "call" /\ visited' = newPointers
          /\ out' = out
  /\ UNCHANGED <<heap, l, r>>

\* The loop over the fields of lteq, from field i on.
lteqFieldsFrom(stk, i) ==
  LET fr == stk[Len(stk)]
      n == NextField(fr.lv.f, i)
  IN  IF n > Len(fr.lv.f) THEN Return(stk, LtEq(FALSE, TRUE), visited)
      ELSE Call([stk EXCEPT ![Len(stk)].i = n],
                lteqKindFrame(fr.lv.f[n].v.k, fr.lv.f[n].v, fr.rv.f[n].v), visited)

lteqEnter ==
  /\ Entered("lteq")
  /\ IF Top.lv.k = "invalid" \/ Top.rv.k = "invalid" \/ Top.lv.t # Top.rv.t THEN Panics
     ELSE IF Top.lv.k # "struct"
     THEN Call(stack, lteqKindFrame(Top.lv.k, Top.lv, Top.rv), visited)
     ELSE lteqFieldsFrom(stack, 1)
  /\ UNCHANGED <<r, op, arg>>

lteqResume ==
  /\ Resumed("lteq")
  /\ IF Top.lv.k # "struct" THEN Return(stack, Top.res, visited)
     ELSE IF ~Top.res.eq THEN Return(stack, LtEq(Top.res.lt, FALSE), visited)
     ELSE lteqFieldsFrom(stack, Top.i + 1)
  /\ UNCHANGED <<r, op, arg>>

\* The loop over the elements of lteqKind's Array/Slice case, from index i on;
\* last is the (lt, eq) the loop has left so far.
lteqElemsFrom(stk, i, last) ==
  LET fr == stk[Len(stk)]
  IN  IF i > Len(fr.lv.e) THEN Return(stk, last, visited)
      ELSE Call([stk EXCEPT ![Len(stk)].i = i], lteqFrame(fr.lv.e[i], fr.rv.e[i]), visited)

lteqKindEnter ==
  /\ Entered("lteqKind")
  /\ LET fr == Top
     IN  CASE fr.k = "struct" -> Call(stack, lteqFrame(fr.lv, fr.rv), visited)
           [] fr.k \in {"array", "slice"} ->
                IF Len(fr.lv.e) # Len(fr.rv.e)
                THEN Return(stack, LtEq(Len(fr.lv.e) < Len(fr.rv.e), FALSE), visited)
                ELSE lteqElemsFrom(stack, 1, LtEq(FALSE, TRUE))
           [] fr.k = "ptr" ->
                IF fr.lv.a = 0
                THEN Return(stack, LtEq(fr.rv.a # 0, fr.rv.a = 0), visited)
                ELSE IF fr.rv.a = 0 THEN Return(stack, LtEq(FALSE, FALSE), visited)
                ELSE LET lh == hasOrAdd(visited, fr.lv.a)
                         rh == hasOrAdd(lh.p, fr.rv.a)
                         rm == (IF ~lh.has THEN {fr.lv.a} ELSE {})
                                 \cup (IF ~rh.has THEN {fr.rv.a} ELSE {})
                     IN  IF lh.has THEN Return(stack, LtEq(~rh.has, rh.has), rh.p \ rm)
                         ELSE IF rh.has THEN Return(stack, LtEq(FALSE, FALSE), rh.p \ rm)
                         ELSE Call([stack EXCEPT ![Len(stack)].rm = rm],
                                   lteqKindFrame(heap[fr.lv.a].k, heap[fr.lv.a],
                                                 heap[fr.rv.a]),
                                   rh.p)
           [] OTHER ->
                \E o \in lteqKind(visited, heap, fr.k, fr.lv, fr.rv) :
                  IF o.pn THEN Panics ELSE Return(stack, LtEq(o.lt, o.eq), visited)
  /\ UNCHANGED <<r, op, arg>>

lteqKindResume ==
  /\ Resumed("lteqKind")
  /\ CASE Top.k \in {"array", "slice"} ->
            IF ~Top.res.eq THEN Return(stack, LtEq(Top.res.lt, FALSE), visited)
            ELSE lteqElemsFrom(stack, Top.i + 1, Top.res)
       [] Top.k = "ptr" -> Return(stack, Top.res, visited \ Top.rm)
       [] OTHER -> Return(stack, Top.res, visited)
  /\ UNCHANGED <<r, op, arg>>

\* sort.Slice with the less function "lt, _ := lteq(p, s[i], s[j]); return lt",
\* at the indices (i, j) of its insertion sort.
sortSliceEnter ==
  /\ Entered("sort.Slice")
  /\ LET fr == Top
     IN  IF fr.i > Len(fr.s) THEN Return(stack, SortedAs(fr.s), visited)
         ELSE IF fr.j <= 1
         THEN Continue([stack EXCEPT ![Len(stack)].i = fr.i + 1, ![Len(stack)].j = fr.i + 1])
         ELSE Call(stack, lteqFrame(fr.s[fr.j], fr.s[fr.j - 1]), visited)
  /\ UNCHANGED <<r, op, arg>>

sortSliceResume ==
  /\ Resumed("sort.Slice")
  /\ LET fr == Top
     IN  IF fr.res.lt
         THEN Continue([stack EXCEPT ![Len(stack)].s = Swap(fr.s, fr.j, fr.j - 1),
                                     ![Len(stack)].j = fr.j - 1])
         ELSE Continue([stack EXCEPT ![Len(stack)].i = fr.i + 1, ![Len(stack)].j = fr.i + 1])
  /\ UNCHANGED <<r, op, arg>>

\* The loop over the fields of innerSort, from field i on.
innerSortFieldsFrom(stk, i) ==
  LET fr == stk[Len(stk)]
      n == NextField(fr.lv.f, i)
  IN  IF n > Len(fr.lv.f) THEN Return(stk, Sortable(TRUE, fr.lv), visited)
      ELSE Call([stk EXCEPT ![Len(stk)].i = n], innerSortFrame(fr.lv.f[n].v, fr.addr), visited)

innerSortEnter ==
  /\ Entered("innerSort")
  /\ LET v == Top.lv
     IN  CASE v.k = "ptr" ->
                IF v.a = 0 THEN Return(stack, Sortable(TRUE, v), visited)
                ELSE LET ha == hasOrAdd(visited, v.a)
                     IN  IF ha.has THEN Return(stack, Sortable(TRUE, v), ha.p)
                         ELSE Call([stack EXCEPT ![Len(stack)].rm = {v.a}],
                                   innerSortFrame(heap[v.a], TRUE), ha.p)
           [] v.k \in {"array", "slice"} ->
                IF v.e = <<>> THEN Return(stack, Sortable(TRUE, v), visited)
                ELSE IF v.k = "array" /\ ~Top.addr
                THEN Return(stack, Sortable(FALSE, v), visited)
                ELSE IF v.e[1].k \in NativeKinds
                THEN \E st \in sortSlice("native", visited, heap, v.e) :
                       Return(stack, Sortable(TRUE, [v EXCEPT !.e = st.s]), visited)
                ELSE Call(stack, sortSliceFrame(v.e), visited)
           [] v.k = "struct" -> innerSortFieldsFrom(stack, 1)
           [] OTHER ->
                \E o \in innerSort(visited, heap, v, Top.addr) :
                  IF o.pn THEN Panics ELSE Return(stack, Sortable(o.ok, o.v), visited)
  /\ UNCHANGED <<r, op, arg>>

innerSortResume ==
  /\ Resumed("innerSort")
  /\ LET fr == Top
     IN  CASE fr.k = "ptr" ->
                /\ stack' = [SubSeq(stack, 1, Len(stack) - 1)
                               EXCEPT ![Len(stack) - 1].res = Sortable(fr.res.ok, fr.lv)]
                /\ pc' = "ret" /\ visited' = visited \ fr.rm
                /\ heap' = [heap EXCEPT ![fr.lv.a] = fr.res.v]
                /\ UNCHANGED <<l, out>>
           [] fr.k \in {"array", "slice"} ->
                Return(stack, Sortable(TRUE, [fr.lv EXCEPT !.e = fr.res.s]), visited)
           [] OTHER ->
                innerSortFieldsFrom(
                  [stack EXCEPT ![Len(stack)].lv.f[fr.i].v = fr.res.v], fr.i + 1)
  /\ UNCHANGED <<r, op, arg>>

LessReturn ==
  /\ Resumed("Less")
  /\ Returns(IF Top.res.lt THEN "true" ELSE "false", heap, l)
  /\ UNCHANGED <<r, op, arg>>

EqualReturn ==
  /\ Resumed("Equal")
  /\ Returns(IF Top.res.eq THEN "true" ELSE "false", heap, l)
  /\ UNCHANGED <<r, op, arg>>

CompareReturn ==
  /\ Resumed("Compare")
  /\ Returns(compareOf(Top.res), heap, l)
  /\ UNCHANGED <<r, op, arg>>

SortReturn ==
  /\ Resumed("Sort")
  /\ Returns("done", heap, Top.res.v)
  /\ UNCHANGED <<r, op, arg>>

\* The compaction loop of DistinctInPlace over s, at index next with the last
\* kept index last.
compactFrom(stk, s, last, next) ==
  IF next > Len(s)
  THEN Returns("done", [heap EXCEPT ![l.a].e = SubSeq(s, 1, last)], l)
  ELSE CallWith([stk EXCEPT ![Len(stk)].s = s, ![Len(stk)].i = last, ![Len(stk)].j = next],
                lteqFrame(s[last], s[next]), visited, [heap EXCEPT ![l.a].e = s])

\* DistinctInPlace goes on after innerSort has returned (fr.j = 0), or after
\* the lteq of its loop has.
DistinctInPlaceResume ==
  /\ Resumed("DistinctInPlace")
  /\ LET fr == Top
     IN  IF fr.j = 0
         THEN IF Len(fr.res.v.e) = 0 THEN Returns("done", heap, l)
              ELSE compactFrom(stack, fr.res.v.e, 1, 2)
         ELSE IF fr.res.eq THEN compactFrom(stack, fr.s, fr.i, fr.j + 1)
         ELSE compactFrom(stack,
                          IF fr.i + 1 # fr.j THEN [fr.s EXCEPT ![fr.i + 1] = fr.s[fr.j]]
                          ELSE fr.s,
                          fr.i + 1, fr.j + 1)
  /\ UNCHANGED <<r, op, arg>>

NextRun ==
  \/ RunLess
  \/ RunEqual
  \/ RunCompare
  \/ RunSort
  \/ RunDistinctInPlace
  \/ lteqEnter
  \/ lteqResume
  \/ lteqKindEnter
  \/ lteqKindResume
  \/ sortSliceEnter
  \/ sortSliceResume
  \/ innerSortEnter
  \/ innerSortResume
  \/ LessReturn
  \/ EqualReturn
  \/ CompareReturn
  \/ SortReturn
  \/ DistinctInPlaceResume

(***************************************************************************)
(* The operands of the step-by-step calls: the cells 1..NPtr of the heap   *)
(* hold Nodes that point to each other in every way, the cell NPtr + 1 a   *)
(* []*Node; the operands are *Node, or the *[]*Node.                       *)
(***************************************************************************)
TNodes == <<"[]", "*", "Node">>
NodesCell == NPtr + 1
NodesPtr == mkPtr(TNodes, NodesCell)
RunHeaps(e) ==
  {[a \in 1..NodesCell |-> IF a = NodesCell THEN mkSlice(<<"*", "Node">>, e)
                           ELSE Node(0, next[a])]
   : next \in [Addrs -> 0..NPtr]}

\* The heaps whose cells 1..NPtr + 1 all hold Nodes, none with a nil Next.
NodeRunHeaps == [1..NodesCell -> {Node(0, n) : n \in 1..NodesCell}]

InitRun ==
  \/ \E h \in RunHeaps(<<>>) : \E lv \in NodePtrs : \E rv \in NodePtrs \cup {NodesPtr} :
       Start(h, lv, rv)
  \/ \E e \in SeqsUpTo(NodePtrs, 2) : \E h \in RunHeaps(e) : Start(h, NodesPtr, NodesPtr)
  \/ \E h \in NodeRunHeaps : Start(h, mkPtr(TNode, 1), mkPtr(TNode, 2))

SpecRun == InitRun /\ [][NextRun]_vars /\ WF_vars(NextRun)

(***************************************************************************)
(* The claims.                                                             *)
(***************************************************************************)
CompareOps == {"Less", "Equal", "Compare"}

\* The results of the three calls on (lv, rv) in the current state, the call
\* the program has just made contributing the result it got.
LessOf(lv, rv) ==
  IF op = "Less" /\ lv = l /\ rv = r THEN {out.val} ELSE Less(heap, lv, rv)

EqualOf(lv, rv) ==
  IF op = "Equal" /\ lv = l /\ rv = r THEN {out.val} ELSE Equal(heap, lv, rv)

CompareOf(lv, rv) ==
  IF op = "Compare" /\ lv = l /\ rv = r THEN {out.val} ELSE Compare(heap, lv, rv)

\* C1: equality is reflexive: for every value v, Equal(v, v) is true, Less(v, v)
\* is false and Compare(v, v) is 0, also when v is or holds a non-nil pointer.
C1_Reflexive ==
  (op \in CompareOps /\ l = r) =>
    /\ EqualOf(l, r) = {"true"}
    /\ LessOf(l, r) = {"false"}
    /\ CompareOf(l, r) = {"0"}

ExactlyOne(a, b, c) == (a /\ ~b /\ ~c) \/ (~a /\ b /\ ~c) \/ (~a /\ ~b /\ c)

Negated(c) == IF c = "-1" THEN "1" ELSE IF c = "1" THEN "-1" ELSE c

\* C2: trichotomy: for l and r of one type exactly one of Less(l, r),
\* Equal(l, r), Less(r, l) is true, and Compare(l, r) = -Compare(r, l).
C2_Trichotomy ==
  (op \in CompareOps /\ l.t = r.t) =>
    /\ \A a \in LessOf(l, r), e \in EqualOf(l, r), b \in Less(heap, r, l) :
         ExactlyOne(a = "true", e = "true", b = "true")
    /\ \A c \in CompareOf(l, r), d \in Compare(heap, r, l) :
         c \in {"-1", "0", "1"} /\ d = Negated(c)

\* C3: Less, Equal and Compare panic if and only if the types of the two
\* operands differ.
C3_PanicIffTypesDiffer ==
  op \in CompareOps => (out.pn <=> l.t # r.t)

\* The values that differ from v only in unexported struct fields (an
\* unexported int field ranging over 0..1), at any depth.
RECURSIVE Variants(_)
RECURSIVE VariantSeqs(_, _)
VariantSeqs(e, i) ==
  IF i > Len(e) THEN {<<>>}
  ELSE {<<x>> \o rest : x \in Variants(e[i]), rest \in VariantSeqs(e, i + 1)}

Variants(v) ==
  CASE v.k = "struct" ->
         {[v EXCEPT !.f = [i \in 1..Len(v.f) |-> [x |-> v.f[i].x, v |-> fs[i]]]] :
            fs \in VariantSeqs([i \in 1..Len(v.f) |->
                                 IF v.f[i].x \/ v.f[i].v.k # "int" THEN v.f[i].v
                                 ELSE [k |-> "hidden", t |-> <<>>]], 1)}
    [] v.k = "hidden" -> {mkInt(0), mkInt(1)}
    [] v.k \in {"slice", "array", "interface"} ->
         {[v EXCEPT !.e = e] : e \in VariantSeqs(v.e, 1)}
    [] v.k = "map" ->
         {[v EXCEPT !.m = [i \in 1..Len(v.m) |-> <<ks[i], vs[i]>>]] :
            ks \in {q \in VariantSeqs([i \in 1..Len(v.m) |-> v.m[i][1]], 1) :
                      \A i, j \in 1..Len(q) : i # j => GoEq(q[i], q[j]) # "eq"},
            vs \in VariantSeqs([i \in 1..Len(v.m) |-> v.m[i][2]], 1)}
    [] OTHER -> {v}

\* The unexported fields of a struct (and of the structs in its exported
\* fields), in order.
RECURSIVE Unexported(_)
RECURSIVE UnexportedFrom(_, _)
UnexportedFrom(f, i) ==
  IF i > Len(f) THEN <<>>
  ELSE (IF f[i].x THEN Unexported(f[i].v) ELSE <<f[i].v>>) \o UnexportedFrom(f, i + 1)

Unexported(v) == IF v.k = "struct" THEN UnexportedFrom(v.f, 1) ELSE <<>>

\* C9: unexported fields do not interfere: changing the values of unexported
\* fields changes no result of Less, Equal or Compare, and Sort leaves every
\* unexported field as it was.
C9_UnexportedIgnored ==
  /\ op \in CompareOps =>
       \A l2 \in Variants(l), r2 \in Variants(r) :
         /\ Less(heap, l2, r2) = Less(heap, l, r)
         /\ Equal(heap, l2, r2) = Equal(heap, l, r)
         /\ Compare(heap, l2, r2) = Compare(heap, l, r)
  /\ op = "Sort" => Unexported(l) = Unexported(arg.l)

\* C10: the (less, equal) pair is exclusive: for operands of one type lteq
\* never returns (true, true), so Less and Equal are never both true, Compare
\* gives 0 exactly when the pair says equal and -1 exactly when it says less
\* (the same pair read by all three functions), and Compare can give 0 exactly
\* when Equal can give true, -1 exactly when Less can give true.
C10_Exclusive ==
  (op \in CompareOps /\ l.t = r.t) =>
    /\ \A o \in lteq(newPointers, heap, l, r) :
         ~o.pn => /\ ~(o.lt /\ o.eq)
                  /\ compareOf(o) = "0" <=> o.eq
                  /\ compareOf(o) = "-1" <=> o.lt
    /\ ~("true" \in LessOf(l, r) /\ "true" \in EqualOf(l, r))
    /\ "0" \in Compare(heap, l, r) <=> "true" \in Equal(heap, l, r)
    /\ "-1" \in Compare(heap, l, r) <=> "true" \in Less(heap, l, r)
    /\ op = "Compare" /\ out.val = "0" => "true" \in Equal(heap, l, r)
    /\ op = "Compare" /\ out.val = "-1" => "true" \in Less(heap, l, r)
    /\ op = "Equal" /\ out.val = "true" => "0" \in Compare(heap, l, r)
    /\ op = "Less" /\ out.val = "true" => "-1" \in Compare(heap, l, r)

\* Compare has answered 0 for two maps of two entries each.
C10_Witness ==
  /\ op = "Compare" /\ out.val = "0"
  /\ l.k = "map" /\ r.k = "map" /\ Len(l.m) = 2 /\ Len(r.m) = 2

\* The slices innerSort has sorted when it was called on v (v and h as the
\* call left them): v itself when it is a slice or an addressable array, and
\* those behind the pointers, the exported fields and the slice-typed map
\* values it walks through.
RECURSIVE SortedSlices(_, _, _, _)
SortedSlices(p, h, v, addr) ==
  CASE v.k = "ptr" ->
         IF v.a = 0 \/ v.a \in p THEN {} ELSE SortedSlices(p \cup {v.a}, h, h[v.a], TRUE)
    [] v.k = "slice" -> {v.e}
    [] v.k = "array" -> IF addr THEN {v.e} ELSE {}
    [] v.k = "map" ->
         UNION {IF v.m[i][2].k = "slice" THEN {v.m[i][2].e} ELSE {} : i \in 1..Len(v.m)}
    [] v.k = "struct" ->
         UNION {IF v.f[i].x THEN SortedSlices(p, h, v.f[i].v, addr) ELSE {}
                : i \in 1..Len(v.f)}
    [] OTHER -> {}

\* The slices reachable from v through non-nil pointers, map values, exported
\* struct fields and the elements of slices and arrays.
RECURSIVE ReachableSlices(_, _, _)
ReachableSlices(p, h, v) ==
  CASE v.k = "ptr" ->
         IF v.a = 0 \/ v.a \in p THEN {} ELSE ReachableSlices(p \cup {v.a}, h, h[v.a])
    [] v.k \in {"slice", "array"} ->
         (IF v.k = "slice" THEN {v.e} ELSE {})
           \cup UNION {ReachableSlices(p, h, v.e[i]) : i \in 1..Len(v.e)}
    [] v.k = "map" -> UNION {ReachableSlices(p, h, v.m[i][2]) : i \in 1..Len(v.m)}
    [] v.k = "struct" ->
         UNION {IF v.f[i].x THEN ReachableSlices(p, h, v.f[i].v) ELSE {}
                : i \in 1..Len(v.f)}
    [] OTHER -> {}

\* not Less(e[i+1], e[i]) for all adjacent indices
Ascending(h, e) == \A i \in 1..(Len(e) - 1) : "true" \notin Less(h, e[i + 1], e[i])

EqualIn(h, a, b) == Equal(h, a, b) = {"true"}

\* C4: after DistinctInPlace(&s) no two elements of s are Equal, every element
\* of the original s is Equal to some element of s, and len(s) is the number
\* of Equal-classes of the original elements; an empty s is left unchanged.
C4_DistinctPostcondition ==
  (op = "DistinctInPlace" /\ ~out.pn) =>
    LET s0 == arg.h[l.a].e
        s1 == heap[l.a].e
    IN  /\ \A i, j \in 1..Len(s1) : i # j => ~EqualIn(heap, s1[i], s1[j])
        /\ \A i \in 1..Len(s0) : \E j \in 1..Len(s1) : EqualIn(heap, s0[i], s1[j])
        /\ Len(s1) = Cardinality({{j \in 1..Len(s0) : EqualIn(heap, s0[i], s0[j])}
                                   : i \in 1..Len(s0)})
        /\ s0 = <<>> => heap = arg.h

\* C5: after Sort, and after DistinctInPlace, every slice and addressable array
\* x that was sorted is ascending: not Less(x[i+1], x[i]) for all adjacent i.
C5_SortAscending ==
  /\ (op = "Sort" /\ ~out.pn) =>
       \A e \in SortedSlices(newPointers, heap, l, FALSE) : Ascending(heap, e)
  /\ (op = "DistinctInPlace" /\ ~out.pn) =>
       \A e \in SortedSlices(newPointers, heap, heap[l.a], TRUE) : Ascending(heap, e)

\* C6: Sort is deep: after Sort(s) every slice reachable from s (through
\* pointers, map values, exported fields and the elements of slices and
\* arrays) is ascending.
C6_SortDeep ==
  (op = "Sort" /\ ~out.pn) =>
    \A e \in ReachableSlices(newPointers, heap, l) : Ascending(heap, e)

\* The lengths N and M of the two rings of a ring heap: the first ring is
\* the cells 1..N, its last cell pointing back to cell 1.
RingRef(node) == IF node.f[1].v.k = "ptr" THEN node.f[1].v.a ELSE node.f[1].v.e[1].a
RingN == CHOOSE a \in DOMAIN heap : RingRef(heap[a]) = 1
RingM == Len(heap) - RingN

\* C7: rings that recurse sooner are less: for a ring of N and a ring of M
\* nodes, Less is true iff N < M, Equal is true iff N = M, and Compare is -1,
\* 0 or 1 accordingly (both Less and Equal false iff N > M).
C7_Rings ==
  /\ op = "Less" => out.val = (IF RingN < RingM THEN "true" ELSE "false")
  /\ op = "Equal" => out.val = (IF RingN = RingM THEN "true" ELSE "false")
  /\ op = "Compare" =>
       out.val = (IF RingN < RingM THEN "-1" ELSE IF RingN = RingM THEN "0" ELSE "1")
  /\ op \in CompareOps =>
       (RingN > RingM <=> Less(heap, l, r) = {"false"} /\ Equal(heap, l, r) = {"false"})

\* Less has answered true for a ring of two against a ring of three nodes.
C7_Witness == op = "Less" /\ out.val = "true" /\ RingN = 2 /\ RingM = 3

\* The frames that have followed a pointer and not yet returned.
PtrFrames == {n \in 1..Len(stack) : stack[n].rm # {}}

\* The step-by-step call has given one of the results of the call as a whole.
RunMatchesCall ==
  pc = "done" =>
    CASE op = "Less" -> out.val \in Less(arg.h, l, r)
      [] op = "Equal" -> out.val \in Equal(arg.h, l, r)
      [] op = "Compare" -> out.val \in Compare(arg.h, l, r)
      [] op = "Sort" ->
           \E o \in Sort(arg.h, arg.l) : o.pn = out.pn /\ (~o.pn => o.v = l /\ o.h = heap)
      [] OTHER -> \E o \in DistinctInPlace(arg.h, l) : o.pn = out.pn /\ (~o.pn => o.h = heap)

\* C8: every call of Less, Equal, Compare, Sort and DistinctInPlace returns or
\* panics, also on heaps with cycles and self-references; no two frames of the
\* stack have followed the same pointer, so the frames that have followed a
\* pointer are never more than the pointers of the input, and the stack stays
\* below the model's cap.
C8_Terminates ==
  /\ [](/\ \A m, n \in PtrFrames : m # n => stack[m].rm \cap stack[n].rm = {}
        /\ Cardinality(PtrFrames) <= Len(heap)
        /\ Len(stack) < StackCap)
  /\ <>(pc = "done")

\* Less has returned for two pointers into one ring of two nodes.
C8_Witness ==
  /\ pc = "done" /\ ~out.pn /\ op = "Less"
  /\ l.k = "ptr" /\ r.k = "ptr" /\ l.a = 1 /\ r.a = 2
  /\ heap[1] = Node(0, 2) /\ heap[2] = Node(0, 1)

\* The verdict of one result of lteq.
VerdictOf(o) == IF o.pn THEN "panic" ELSE IF o.lt THEN "lt" ELSE IF o.eq THEN "eq" ELSE "gt"

Verdicts(h, lv, rv) == {VerdictOf(o) : o \in lteq(newPointers, h, lv, rv)}

\* The entries of the map m in the orders that are ascending by key.
SortedEntries(h, m) ==
  {[i \in 1..Len(m.m) |-> m.m[ord[i]]] : ord \in
     {q \in Perms(Len(m.m)) :
        \A i, j \in 1..Len(m.m) :
          i < j => "true" \notin Less(h, m.m[q[j]][1], m.m[q[i]][1])}}

\* The verdict of the value pair under the first key, from the i-th on, whose
\* two values are not equal ("eq" if there is none).
RECURSIVE FirstUnequal(_, _, _, _)
FirstUnequal(h, le, re, i) ==
  IF i > Len(le) THEN {"eq"}
  ELSE UNION {IF v = "eq" THEN FirstUnequal(h, le, re, i + 1) ELSE {v}
              : v \in Verdicts(h, le[i][2], re[i][2])}

\* C11: map values are compared in sorted-key order and deterministically: for
\* two maps of one type and one length whose sorted key lists are pairwise
\* equal, the verdict of every call is the verdict of the value pair under the
\* first key, in sorted-key order, whose values are not equal.
C11_MapValuesInKeyOrder ==
  (/\ op \in CompareOps
   /\ l.k = "map" /\ r.k = "map" /\ l.t = r.t /\ Len(l.m) = Len(r.m)) =>
    \A le \in SortedEntries(heap, l), re \in SortedEntries(heap, r) :
      (\A i \in 1..Len(le) : EqualIn(heap, le[i][1], re[i][1])) =>
        /\ Verdicts(heap, l, r) = FirstUnequal(heap, le, re, 1)
        /\ Cardinality(Verdicts(heap, l, r)) = 1
        /\ op = "Less" => out.val = (IF Verdicts(heap, l, r) = {"lt"} THEN "true" ELSE "false")

\* lteqKind is about to compare two non-nil pointers.
PtrCompare ==
  /\ Entered("lteqKind") /\ Top.k = "ptr"
  /\ Top.lv.a # 0 /\ Top.rv.a # 0

\* The pointer is already in the visited set: its side is cycle-closing.
LeftClosing == Top.lv.a \in visited
RightClosing == Top.rv.a \in visited

\* The step returns (lt, eq) to the caller of the top frame.
Answers(lt, eq) ==
  /\ pc' = "ret" /\ Len(stack') = Len(stack) - 1
  /\ stack'[Len(stack')].res.lt = lt /\ stack'[Len(stack')].res.eq = eq

\* C12, as amended: when two non-nil pointers are compared and only the left
\* one is cycle-closing the answer is (true, false), the cycle-closing side is
\* less; when only the right one is cycle-closing the answer is (false, false),
\* the left side is greater; when both are cycle-closing the two are equal.
C12_ClosingSideLess ==
  [][PtrCompare =>
       /\ LeftClosing /\ ~RightClosing => Answers(TRUE, FALSE)
       /\ ~LeftClosing /\ RightClosing => Answers(FALSE, FALSE)
       /\ LeftClosing /\ RightClosing => Answers(FALSE, TRUE)]_vars

\* C12, as stated: the side that alone is cycle-closing is greater, whichever
\* operand it is (left: not less and not equal; right: the left one is less);
\* when both are cycle-closing the two are equal.
C12_ClosingSideGreater ==
  [][PtrCompare =>
       /\ LeftClosing /\ ~RightClosing => Answers(FALSE, FALSE)
       /\ ~LeftClosing /\ RightClosing => Answers(TRUE, FALSE)
       /\ LeftClosing /\ RightClosing => Answers(FALSE, TRUE)]_vars

\* lteq's field loop has been answered (true, false) for its Next pointers,
\* the left one cycle-closing and the right one not.
C12_Witness ==
  /\ Resumed("lteq") /\ Top.lv.k = "struct" /\ Top.i = 2
  /\ Top.lv.f[2].v.a \in visited
  /\ Top.rv.f[2].v.a # 0 /\ Top.rv.f[2].v.a \notin visited
  /\ Top.res.lt /\ ~Top.res.eq

\* The visited set is the pointers the frames of the stack have followed and
\* will take out again when they return.
VisitedIsPath == visited = UNION {stack[n].rm : n \in 1..Len(stack)}

\* The set is empty when the API function has returned.
EmptyAtReturn == pc = "done" => visited = {}

\* The step follows the pointers in ptrs: it adds them to the set and calls.
Follows(ptrs) ==
  /\ pc' = "call" /\ Len(stack') = Len(stack) + 1
  /\ visited' = visited \cup ptrs

\* A pointer comparison of lteqKind in which neither side is on the path
\* follows both pointers.
UnvisitedCompared ==
  (PtrCompare /\ ~LeftClosing /\ ~RightClosing) => Follows({Top.lv.a, Top.rv.a})

\* innerSort follows a non-nil pointer that is not on the path.
UnvisitedSorted ==
  (Entered("innerSort") /\ Top.k = "ptr" /\ Top.lv.a # 0 /\ Top.lv.a \notin visited)
    => Follows({Top.lv.a})

\* C13: stack discipline of the visited set: the set always holds exactly the
\* pointers followed on the current recursion path (so every call returns with
\* the set as it was on entry), it is empty when the API function has
\* returned, and a non-nil pointer that is not on the current path is never
\* treated as visited: lteqKind and innerSort follow it.
C13_StackDiscipline ==
  /\ [](VisitedIsPath /\ EmptyAtReturn)
  /\ [][UnvisitedCompared /\ UnvisitedSorted]_vars

\* What holds of the code: the same with the pointer comparisons restricted to
\* two different pointers. Two equal pointers off the path are not followed:
\* hasOrAdd finds on the right the pointer it has just added on the left.
DistinctCompared ==
  (PtrCompare /\ ~LeftClosing /\ ~RightClosing /\ Top.lv.a # Top.rv.a)
    => Follows({Top.lv.a, Top.rv.a})

StackDisciplineDistinct ==
  /\ [](VisitedIsPath /\ EmptyAtReturn)
  /\ [][DistinctCompared /\ UnvisitedSorted]_vars

====
